---- MODULE Spec2Model ----
(***************************************************************************)
(* Model of the dashboard data-synchronization hook `useDashboardData`     *)
(* (src/src/hooks/useDashboardData.ts) together with the part of the       *)
(* remote data client it calls (snapshotApi.getLatest).                    *)
(*                                                                         *)
(* Scheduling follows React 18: state updates issued from one asynchronous *)
(* continuation are batched; the re-render and the passive effects they    *)
(* cause run after that continuation (and every microtask it chains) and   *)
(* before the next network completion or timer callback.  One action is    *)
(* therefore one event-loop task: the handler, the microtask continuations *)
(* it resumes, and the render + interval effect that its writes cause.     *)
(*                                                                         *)
(* The parts of the application that do not share state with the hook      *)
(* have specifications of their own: the status derivation of the          *)
(* Dashboard (StatusSpec), the remote data client (ClientSpec), the        *)
(* history charts (ChartSpec), the polls of VehicleMap (PollSpec), the     *)
(* chart selection of AnalyticsDashboard (AnalyticsSpec) and the           *)
(* notification bell (NotesSpec).  PeriodicSpec is the hook driven by its  *)
(* interval alone, under fair scheduling.                                  *)
(***************************************************************************)
EXTENDS Integers, Sequences, FiniteSets, TLC

\* ------------------------------------------------------------------ bounds
MaxRefresh  == 2    \* refreshData / refreshSnapshots invocations that mint a token
MaxVehicles == 2    \* longest vehicle list the backend answers with
MaxAlerts   == 1    \* longest alert list the backend answers with
MaxErrorLen == 2    \* longest error string of a snapshot
MaxCalls    == 2    \* concurrent invocations of the remote data client
MaxAttempts == 2    \* HTTP requests one invocation could issue if it retried
MaxHistory  == 3    \* longest history list the backend answers with
MaxDays     == 2    \* calendar days a history spans
MaxTimes    == 2    \* times of day at which a snapshot is taken
MaxValue    == 2    \* largest sensor reading
MaxPolls    == 2    \* VehicleMap polls that may overlap
MaxLoads    == 2    \* history requests AnalyticsDashboard issues
MaxNotices  == 2    \* alerts the notification bell is given

\* --------------------------------------------------------------- constants
InitOp       == 0        \* the initial load (it runs under no cancellation token)
NoController == 0        \* abortControllerRef.current === null
NoInterval   == 0        \* intervalRef.current === null
NoSnapshot   == 0        \* getLatest answered null
MountTime    == 0        \* lastUpdate: new Date() taken by useState at mount
NoError      == "null"

RefreshOps == 1..MaxRefresh
Ops        == {InitOp} \cup RefreshOps
VehicleIds == 1..MaxVehicles

\* The lists the backend may answer GET /vehicles and GET /alerts with.
VehicleLists == {[i \in 1..n |-> i] : n \in 0..MaxVehicles}
AlertLists   == {[i \in 1..n |-> i] : n \in 0..MaxAlerts}
Outcomes     == {"ok", "absent", "failed"}

EmptyMap == <<>>

VARIABLES
  data,                \* DashboardData: vehicles, snapshots, alerts, lastUpdate
  loading,             \* LoadingState: vehicles, snapshots, alerts
  error,               \* string | null
  isInitialized,
  intervalRef,         \* id held by intervalRef.current
  timers,              \* armed intervals: id |-> the vehicle list its callback closes over
  abortControllerRef,  \* token whose controller abortControllerRef.current holds
  aborted,             \* tokens whose signal.aborted is true
  ops,                 \* the asynchronous operations of the hook and their locals
  nextOp,              \* token the next refresh mints
  mounted,             \* the owning component is mounted
  event                \* the handler that ran last

hookVars == <<data, loading, error, isInitialized, intervalRef, timers,
              abortControllerRef, aborted, ops, nextOp, mounted, event>>

\* The presentation components that are modelled on their own.
VARIABLES
  status       \* Dashboard.getVehicleStatus: its arguments and what it returned

VARIABLES
  calls        \* invocations of the remote data client (services/api)

VARIABLES
  chart        \* loadChartData: the history it was answered and its chart series

VARIABLES
  poll        \* VehicleMap: its polls and the state they write

VARIABLES
  analytics        \* AnalyticsDashboard: selection, history requests, chartData

VARIABLES
  notes        \* RealTimeNotifications: alerts prop, notifications, unreadCount

compVars == <<status, calls, chart, poll, analytics, notes>>

vars == <<hookVars, compVars>>

\* --------------------------------------------------------------- helpers
SeqToSet(s) == {s[i] : i \in 1..Len(s)}

Put(f, k, val) == [x \in (DOMAIN f) \cup {k} |-> IF x = k THEN val ELSE f[x]]

\* new Date() taken by operation r; distinct operations read distinct times.
Time(r) == r + 1

\* A state setter called after unmount is dropped by React.
Set(old, new) == IF mounted THEN new ELSE old

\* `promise` is the state of the promise the async function returned.
IdleOp ==
  [kind |-> "none", pc |-> "idle", vehicles |-> <<>>, pending |-> {},
   outcome |-> EmptyMap, snapshotData |-> EmptyMap, result |-> "none",
   promise |-> "pending"]

\* Mutant of VACaught: initializeData without its try/catch.
VACaughtRefreshOnly(kind) == kind # "init"

\* The await of Promise.all([getAll(), getAll()]) sits in a try whose catch
\* does not rethrow (refreshData lines 145-170, initializeData lines 202-231).
VACaught(kind) == TRUE

\* How the promise of an async function that ended with `result` settles: a
\* rejection no catch takes rejects it, every other end (return, fall off the
\* end, handled rejection) resolves it.
Settlement(kind, result) ==
  IF result = "vaFailed" /\ ~VACaught(kind) THEN "rejected" ELSE "resolved"

\* A finished operation keeps nothing but how it ended; its locals are garbage.
DoneOp(kind, result) ==
  [IdleOp EXCEPT !.kind = kind, !.pc = "done", !.result = result,
                 !.promise = Settlement(kind, result)]

FetchVAOp(kind) == [IdleOp EXCEPT !.kind = kind, !.pc = "fetchVA"]

FetchSnapOp(kind, vs) ==
  [IdleOp EXCEPT !.kind = kind, !.pc = "fetchSnap", !.vehicles = vs,
                 !.pending = SeqToSet(vs)]

\* signal?.aborted as operation r reads it.
SignalAborted(r) == ops[r].kind # "init" /\ r \in aborted

\* ------------------------------------------------------ remote data client
\* snapshotApi.getLatest: the response body on success, null on "no snapshot"
\* and on every error alike.  The snapshot read by operation r carries Time(r).
GetLatest(outcome, r) == IF outcome = "ok" THEN Time(r) ELSE NoSnapshot

\* Mutant of VARejected: a failed alerts request is tolerated.
VARejectedVehiclesOnly(res) == res = "vehiclesFailed"

\* Promise.all([vehicleApi.getAll(), alertApi.getAll()]) rejects when either
\* request fails.
VARejected(res) == res # "ok"

\* ------------------------------------------------- interval effect (render)
\* The interval effect's dependencies are isInitialized, data.vehicles.length,
\* refreshSnapshots (re-created whenever data.vehicles is a new array) and
\* refreshInterval.  Every vehicles write stores a freshly fetched array.
\* Mutant of ArmCondition: the isInitialized test is missing.
ArmConditionVehiclesOnly(init, vs) == Len(vs) > 0

\* Line 239.
ArmCondition(init, vs) == init /\ Len(vs) > 0

\* setInterval returns an id no armed interval has and intervalRef does not hold.
FreshInterval(tm, ref) ==
  CHOOSE i \in 1..(Cardinality(DOMAIN tm) + 2) :
    /\ i \notin DOMAIN tm /\ i # ref
    /\ \A j \in 1..(i - 1) : j \in DOMAIN tm \/ j = ref

Remove(tm, id) == [x \in (DOMAIN tm) \ {id} |-> tm[x]]

\* Mutant of CleanupTimers: the cleanup does not clear the interval.
CleanupTimersKeeping(tm, ref) == tm

\* Effect cleanup: clearInterval(intervalRef.current) ...
CleanupTimers(tm, ref) == IF ref # NoInterval THEN Remove(tm, ref) ELSE tm
\* ... and abortControllerRef.current.abort().
CleanupAborted(ab, ac) == IF ac # NoController THEN ab \cup {ac} ELSE ab

\* The re-render that follows a handler.  `changed`: a dependency of the
\* interval effect changed; `init2`, `vs2`: the state being rendered; `ab`: the
\* aborted signals the handler leaves behind.
Render(changed, init2, vs2, ab) ==
  IF changed /\ mounted
    THEN /\ aborted' = CleanupAborted(ab, abortControllerRef)
         /\ IF ArmCondition(init2, vs2)
              THEN /\ intervalRef' = FreshInterval(timers, intervalRef)
                   /\ timers' = Put(CleanupTimers(timers, intervalRef),
                                     FreshInterval(timers, intervalRef), vs2)
              ELSE /\ intervalRef' = intervalRef
                   /\ timers' = CleanupTimers(timers, intervalRef)
    ELSE /\ aborted' = ab
         /\ intervalRef' = intervalRef
         /\ timers' = timers

\* ------------------------------------------------------------ loadSnapshots
\* Lines 96-97: the writes loadSnapshots makes before it awaits.
LoadingAtStart(l) == [l EXCEPT !.snapshots = TRUE]

\* Mutant of StoreSnapshot: the `snapshot &&` test is missing.
StoreSnapshotUnchecked(sd, v, snapshot, isAborted) ==
  IF ~isAborted THEN Put(sd, v, snapshot) ELSE sd

\* Lines 106-107: one vehicle's fetch settled.
StoreSnapshot(sd, v, snapshot, isAborted) ==
  IF snapshot # NoSnapshot /\ ~isAborted THEN Put(sd, v, snapshot) ELSE sd

\* Mutant of CommitAllowed: the batch's map is written whatever the signal says.
CommitAlways(isAborted) == TRUE

\* Line 118: the batch's map is written unless the signal is aborted.
CommitAllowed(isAborted) == ~isAborted

\* Mutant of FinishData: the updater does not spread the previous data.
FinishDataReplacingAll(d, sd, isAborted) ==
  IF ~isAborted
    THEN [vehicles |-> <<>>, alerts |-> <<>>, snapshots |-> sd,
          lastUpdate |-> d.lastUpdate]
    ELSE d

\* Lines 118-121: the write of the batch's map.
FinishData(d, sd, isAborted) ==
  IF CommitAllowed(isAborted) THEN [d EXCEPT !.snapshots = sd] ELSE d

\* Lines 127-132: finally, the loading flag is cleared unless the signal is aborted.
FinishLoading(l, isAborted) == IF ~isAborted THEN [l EXCEPT !.snapshots = FALSE] ELSE l

\* Lines 188-190: refreshSnapshots stamps lastUpdate after its batch.
StampLastUpdate(d, kind, isAborted, r) ==
  IF kind = "snap" /\ ~isAborted THEN [d EXCEPT !.lastUpdate = Time(r)] ELSE d

\* ---------------------------------------------------------- vehicle status
\* An optional numeric field of a DeviceSnapshot that is not there.
Undefined == -1

AqiLimit  == 100
Eco2Limit == 1000
O3Limit   == 80

\* Error strings, as sequences of characters.
Chars == {" ", "E"}
ErrorTexts == UNION {[1..n -> Chars] : n \in 0..MaxErrorLen}

\* The DeviceSnapshot fields the status depends on, and the ENS160 eCO2 pair.
\* A channel is absent, at its limit, or one above it.
SnapshotValues ==
  [carState          : {Undefined, 0, 1},
   error             : {[defined |-> FALSE, text |-> <<>>]}
                         \cup {[defined |-> TRUE, text |-> t] : t \in ErrorTexts},
   ens160AqiIndoor   : {Undefined, AqiLimit, AqiLimit + 1},
   ens160AqiOutdoor  : {Undefined, AqiLimit, AqiLimit + 1},
   sgp30Eco2Indoor   : {Undefined, Eco2Limit, Eco2Limit + 1},
   sgp30Eco2Outdoor  : {Undefined, Eco2Limit, Eco2Limit + 1},
   ze27O3Indoor      : {Undefined, O3Limit, O3Limit + 1},
   ze27O3Outdoor     : {Undefined, O3Limit, O3Limit + 1},
   ens160Eco2Indoor  : {Undefined, Eco2Limit + 1},
   ens160Eco2Outdoor : {Undefined, Eco2Limit + 1}]

\* data.snapshots as getVehicleStatus sees it: empty, or one vehicle's entry.
SnapshotMaps ==
  {EmptyMap} \cup {[x \in {k} |-> sn] : k \in VehicleIds, sn \in SnapshotValues}

\* String.prototype.trim.
RECURSIVE TrimStart(_)
TrimStart(t) == IF t # <<>> /\ Head(t) = " " THEN TrimStart(Tail(t)) ELSE t

RECURSIVE TrimEnd(_)
TrimEnd(t) ==
  IF t # <<>> /\ t[Len(t)] = " " THEN TrimEnd(SubSeq(t, 1, Len(t) - 1)) ELSE t

Trim(t) == TrimEnd(TrimStart(t))

\* `x && x > limit` on an optional number: undefined and 0 are falsy.
Above(x, limit) == x # Undefined /\ x # 0 /\ x > limit

\* `snapshot.error && snapshot.error.trim() !== ''` (line 57).
HasError(e) == e.defined /\ e.text # <<>> /\ Trim(e.text) # <<>>

\* hasAlert (lines 56-64).
hasAlert(snapshot) ==
  \/ HasError(snapshot.error)
  \/ Above(snapshot.ens160AqiIndoor, AqiLimit)
  \/ Above(snapshot.ens160AqiOutdoor, AqiLimit)
  \/ Above(snapshot.sgp30Eco2Indoor, Eco2Limit)
  \/ Above(snapshot.sgp30Eco2Outdoor, Eco2Limit)
  \/ Above(snapshot.ze27O3Indoor, O3Limit)
  \/ Above(snapshot.ze27O3Outdoor, O3Limit)

\* getVehicleStatus (lines 50-68).
getVehicleStatus(snapshots, vehicle) ==
  IF vehicle \notin DOMAIN snapshots THEN "inactive"
  ELSE IF hasAlert(snapshots[vehicle]) THEN "alert"
  ELSE IF snapshots[vehicle].carState = 1 THEN "active" ELSE "inactive"

\* The status VehicleMap.fetchVehiclesAndSnapshots gives a vehicle (VehicleMap
\* lines 56-92): a null snapshot or a failed fetch gives 'inactive'; otherwise
\* the assignments of lines 60-72 in their order.
mapStatus(snapshots, vehicle) ==
  IF vehicle \notin DOMAIN snapshots THEN "inactive"
  ELSE LET snapshot == snapshots[vehicle]
           s1 == IF snapshot.carState = 1 THEN "active" ELSE "inactive"
           s2 == IF HasError(snapshot.error) THEN "alert" ELSE s1
           s3 == IF Above(snapshot.ens160AqiIndoor, AqiLimit) THEN "alert" ELSE s2
       IN  IF Above(snapshot.ens160AqiOutdoor, AqiLimit) THEN "alert" ELSE s3

StatusIdle == [snapshots |-> EmptyMap, vehicle |-> 1, result |-> "none"]

\* ------------------------------------------------------- VehicleMap polls
PollIds == 1..MaxPolls

\* A DeviceSnapshot with every optional field absent.
Quiet ==
  [carState          |-> Undefined,
   error             |-> [defined |-> FALSE, text |-> <<>>],
   ens160AqiIndoor   |-> Undefined,
   ens160AqiOutdoor  |-> Undefined,
   sgp30Eco2Indoor   |-> Undefined,
   sgp30Eco2Outdoor  |-> Undefined,
   ze27O3Indoor      |-> Undefined,
   ze27O3Outdoor     |-> Undefined,
   ens160Eco2Indoor  |-> Undefined,
   ens160Eco2Outdoor |-> Undefined]

\* The snapshots getLatest answers a poll with: a running car, a bad AQI.
PollSnapshots ==
  {[Quiet EXCEPT !.carState = 1], [Quiet EXCEPT !.ens160AqiOutdoor = AqiLimit + 1]}

\* The locals of one call of fetchVehiclesAndSnapshots (lines 47-51).
IdlePoll ==
  [pc |-> "idle", vehiclesData |-> <<>>, i |-> 0,
   snapshotData |-> EmptyMap, vehiclesWithSnapshots |-> <<>>]

\* VehicleMap before its effect has run (lines 34-39).  Polls are numbered in
\* the order they start; writer is the poll whose results the state holds.
PollIdle ==
  [mounted |-> TRUE, timer |-> FALSE, started |-> 0,
   runs |-> [r \in PollIds |-> IdlePoll],
   vehicles |-> <<>>, snapshots |-> EmptyMap, writer |-> 0]

\* Lines 94-96: the setters, dropped by React once the component is gone.
PollWrite(p, r, run) ==
  IF p.mounted
    THEN [p EXCEPT !.vehicles = run.vehiclesWithSnapshots,
                   !.snapshots = run.snapshotData,
                   !.writer = r]
    ELSE p

\* The loop of lines 53-92 reaches vehicle i, or ends and writes the state.
PollAdvance(p, r, run) ==
  IF run.i > Len(run.vehiclesData)
    THEN [PollWrite(p, r, run) EXCEPT !.runs[r] = [run EXCEPT !.pc = "done"]]
    ELSE [p EXCEPT !.runs[r] = [run EXCEPT !.pc = "getLatest"]]

\* ------------------------------------------------------ remote data client
Apis == {"vehicleApi.getAll", "vehicleApi.create", "snapshotApi.getLatest",
         "snapshotApi.getHistory", "alertApi.getAll", "alertApi.getByCar",
         "alertApi.resolve"}

\* How the one axios request of an invocation ends.
HttpOutcomes == {"2xx", "non2xx", "timeout", "networkError"}

CallSlots == 1..MaxCalls

IdleCall ==
  [api |-> "none", pc |-> "idle", requests |-> 0, settlements |-> 0,
   http |-> "none", promise |-> "pending", value |-> "none"]

CallsIdle == [c \in CallSlots |-> IdleCall]

\* Mutant of RetryOn: the response interceptor re-issues a timed-out request.
RetryOnTimeout(api, http) == http = "timeout"

\* The response interceptor logs a failed response and rejects with the same
\* error (lines 437-444); neither it nor any api function issues the request
\* again.
RetryOn(api, http) == FALSE

\* What the api function's promise settles to (lines 446-489): response.data
\* on success; on failure getLatest's catch returns null, every other function
\* lets the rejection through.
ApiPromise(api, http) ==
  IF http = "2xx" \/ api = "snapshotApi.getLatest" THEN "resolved" ELSE "rejected"

ApiValue(api, http) ==
  IF http = "2xx" THEN "data"
  ELSE IF api = "snapshotApi.getLatest" THEN "null" ELSE "error"

\* ---------------------------------------------------------- history charts
\* A snapshot's ts: its calendar day and its time of day.
Timestamps == [day : 1..MaxDays, time : 1..MaxTimes]

\* The history entries: ts and the reading of the charted sensor, which may be
\* missing from a snapshot.
HistorySnapshots == [ts : Timestamps, value : {Undefined} \cup 1..MaxValue]

\* What GET /snapshots/{id}/history may answer: snapshots of distinct ts, in
\* any order.
Histories ==
  {h \in UNION {[1..n -> HistorySnapshots] : n \in 0..MaxHistory} :
     \A i, j \in 1..Len(h) : i # j => h[i].ts # h[j].ts}

\* Date.prototype.toLocaleTimeString / toLocaleDateString of new Date(ts).
toLocaleTimeString(ts) == ts.time
toLocaleDateString(ts) == ts.day

\* new Date('1970/01/01 ' + timestamp).getTime(): the time of day on one
\* fixed date.
SortKey(point) == point.timestamp

\* The chart points of one sensor, in the order of the history (lines 522-537).
RECURSIVE ChartPoints(_)
ChartPoints(h) ==
  IF h = <<>> THEN <<>>
  ELSE LET snapshot == Head(h)
       IN  (IF snapshot.value # Undefined
              THEN <<[timestamp |-> toLocaleTimeString(snapshot.ts),
                      date      |-> toLocaleDateString(snapshot.ts),
                      value     |-> snapshot.value]>>
              ELSE <<>>) \o ChartPoints(Tail(h))

\* Array.prototype.sort with the comparator of lines 543-546 (a stable sort).
RECURSIVE Insert(_, _)
Insert(point, sorted) ==
  IF sorted = <<>> THEN <<point>>
  ELSE IF SortKey(Head(sorted)) <= SortKey(point)
         THEN <<Head(sorted)>> \o Insert(point, Tail(sorted))
         ELSE <<point>> \o sorted

RECURSIVE Sort(_)
Sort(points) ==
  IF points = <<>> THEN <<>>
  ELSE Insert(points[Len(points)], Sort(SubSeq(points, 1, Len(points) - 1)))

\* sensorMetrics.current (Dashboard lines 569-581) and getCurrentValue
\* (VehicleDetails line 677): the value of the last point; 0 stands for the
\* 0 / null of an empty series.
Current(series) == IF series = <<>> THEN 0 ELSE series[Len(series)].value

RECURSIVE SumValues(_)
SumValues(series) ==
  IF series = <<>> THEN 0 ELSE Head(series).value + SumValues(Tail(series))

\* sensorMetrics of one sensor (Dashboard lines 564-598), trend left out.  The
\* average is kept as the fraction num / den.
sensorMetrics(series) ==
  IF Len(series) = 0
    THEN [current |-> 0, average |-> [num |-> 0, den |-> 1], min |-> 0, max |-> 0]
    ELSE LET values == {series[i].value : i \in 1..Len(series)}
         IN  [current |-> Current(series),
              average |-> [num |-> SumValues(series), den |-> Len(series)],
              min     |-> CHOOSE v \in values : \A w \in values : v <= w,
              max     |-> CHOOSE v \in values : \A w \in values : v >= w]

ChartIdle == [history |-> <<>>, series |-> <<>>, loaded |-> FALSE]

\* --------------------------------------------------- AnalyticsDashboard
LoadIds == 1..MaxLoads

NoVehicle == 0     \* selectedVehicle is null

\* timeRangeConfig[range].dataPoints (Dashboard lines 502-507).
TimeRanges == {"1h", "6h", "24h", "7d"}

timeRangeConfig(range) ==
  CASE range = "1h"  -> 60
    [] range = "6h"  -> 72
    [] range = "24h" -> 144
    [] range = "7d"  -> 168

\* One call of loadChartData: the arguments of its getHistory request.
IdleLoad == [pc |-> "idle", carId |-> NoVehicle, limit |-> 0, res |-> "none"]

\* chartData is {} until a load writes it; a written chartData is the
\* series built from the history of (carId, limit).
NoChartData == [carId |-> NoVehicle, limit |-> 0]

\* Dashboard lines 355-360.
AnalyticsIdle ==
  [selectedVehicle |-> NoVehicle, selectedTimeRange |-> "24h",
   loading |-> FALSE, chartData |-> NoChartData,
   requests |-> [q \in LoadIds |-> IdleLoad], issued |-> 0]

\* The effect of lines 557-561 after a render with selection (v, range):
\* loadChartData up to its await (lines 509-516).
RunLoadEffect(a, v, range) ==
  IF v = NoVehicle
    THEN [a EXCEPT !.selectedVehicle = v, !.selectedTimeRange = range]
    ELSE [a EXCEPT !.selectedVehicle = v, !.selectedTimeRange = range,
                   !.loading = TRUE,
                   !.issued = @ + 1,
                   !.requests[a.issued + 1] =
                      [pc |-> "awaiting", carId |-> v,
                       limit |-> timeRangeConfig(range), res |-> "none"]]

\* ------------------------------------------------- RealTimeNotifications
NoticeAlertIds == 1..MaxNotices

\* An Alert as the bell reads it: id and isResolved.
NoticeAlerts == [id : NoticeAlertIds, isResolved : BOOLEAN]

\* The alert lists the parent passes: ids are the backend's keys, so no list
\* holds an id twice.
NoticeAlertLists ==
  {l \in UNION {[1..n -> NoticeAlerts] : n \in 0..MaxNotices} :
     \A i, j \in 1..Len(l) : i # j => l[i].id # l[j].id}

\* `alert-${alert.id}` (line 841).
NotificationId(alertId) == "alert-" \o ToString(alertId)

\* Lines 840-848; type, title, message and timestamp are display fields.
ToNotification(alert) == [id |-> NotificationId(alert.id), duration |-> 5000]

NotificationIds(list) == {list[i].id : i \in 1..Len(list)}

\* alerts.filter(alert => !alert.isResolved).map(...) (lines 839-848).
NewNotifications(alerts) ==
  LET newAlerts == SelectSeq(alerts, LAMBDA a : ~a.isResolved)
  IN  [i \in 1..Len(newAlerts) |-> ToNotification(newAlerts[i])]

NewOnesUnfiltered(prev, newNotifications) == newNotifications

\* newNotifications.filter(n => !existingIds.has(n.id)) (lines 852-853).
NewOnes(prev, newNotifications) ==
  SelectSeq(newNotifications, LAMBDA n : n.id \notin NotificationIds(prev))

\* prev.filter(n => n.id !== id) (line 879).
Without(prev, id) == SelectSeq(prev, LAMBDA n : n.id # id)

\* Lines 833-835, after the first effect run on an empty alerts prop.  seen
\* and dismissed are the history the claims speak of: the alerts received
\* unresolved so far, and the notification ids removed so far.
NotesIdle ==
  [alerts |-> <<>>, notifications |-> <<>>, unreadCount |-> 0,
   seen |-> {}, dismissed |-> {}, last |-> "mount"]

\* ---------------------------------------------------------------- Init
\* Lines 28-33: the data the hook starts with.
EmptyData ==
  [vehicles |-> <<>>, snapshots |-> EmptyMap, alerts |-> <<>>, lastUpdate |-> MountTime]

HookInit ==
  /\ data = EmptyData
  /\ loading = [vehicles |-> TRUE, snapshots |-> TRUE, alerts |-> TRUE]
  /\ error = NoError
  /\ isInitialized = FALSE
  /\ intervalRef = NoInterval
  /\ timers = EmptyMap
  /\ abortControllerRef = NoController
  /\ aborted = {}
  /\ ops = [r \in Ops |-> IF r = InitOp THEN FetchVAOp("init") ELSE IdleOp]
  /\ nextOp = 1
  /\ mounted = TRUE
  /\ event = [name |-> "mount", op |-> InitOp, vehicle |-> 0, outcome |-> "none"]

Init ==
  /\ HookInit
  /\ status = StatusIdle
  /\ calls = CallsIdle
  /\ chart = ChartIdle
  /\ notes = NotesIdle
  /\ analytics = AnalyticsIdle
  /\ poll = PollIdle

Ev(name, r, v, outcome) == [name |-> name, op |-> r, vehicle |-> v, outcome |-> outcome]

\* ------------------------------------------------ vehicles / alerts fetches
\* `res` is how Promise.all([vehicleApi.getAll(), alertApi.getAll()]) settled:
\* "ok" with the two lists, or the request that failed first.
VAResults == {"ok", "vehiclesFailed", "alertsFailed"}

\* Mutant of InitVAFailed: the catch branch forgets setIsInitialized(true).
InitVAFailedNotMarking(res) ==
  /\ ops[InitOp].pc = "fetchVA"
  /\ VARejected(res)
  /\ error' = Set(error, "Failed to load dashboard data")
  /\ ops' = [ops EXCEPT ![InitOp] = DoneOp("init", "vaFailed")]
  /\ event' = Ev("vaSettled", InitOp, 0, res)
  /\ UNCHANGED <<data, loading, isInitialized, intervalRef, timers,
                 abortControllerRef, aborted, nextOp, mounted>>

\* initializeData, catch branch (lines 227-231).
InitVAFailed(res) ==
  /\ ops[InitOp].pc = "fetchVA"
  /\ VARejected(res)
  /\ error' = Set(error, "Failed to load dashboard data")
  /\ isInitialized' = Set(isInitialized, TRUE)
  /\ ops' = [ops EXCEPT ![InitOp] = DoneOp("init", "vaFailed")]
  /\ Render(isInitialized' # isInitialized, isInitialized', data.vehicles, aborted)
  /\ event' = Ev("vaSettled", InitOp, 0, res)
  /\ UNCHANGED <<data, loading, abortControllerRef, nextOp, mounted>>

\* refreshData, catch branch (lines 165-170).
RefreshVAFailed(r, res) ==
  /\ ops[r].kind = "all"
  /\ ops[r].pc = "fetchVA"
  /\ VARejected(res)
  /\ error' = IF SignalAborted(r) THEN error
                                  ELSE Set(error, "Failed to refresh dashboard data")
  /\ ops' = [ops EXCEPT ![r] = DoneOp("all", "vaFailed")]
  /\ event' = Ev("vaSettled", r, 0, res)
  /\ UNCHANGED <<data, loading, isInitialized, intervalRef, timers,
                 abortControllerRef, aborted, nextOp, mounted>>

\* The data write of lines 155-160 / 214-219.
WriteVehiclesAlerts(d, vs, al, r) ==
  [d EXCEPT !.vehicles = vs, !.alerts = al, !.lastUpdate = Time(r)]

\* Mutant of InitVAResolved: setIsInitialized(true) before the snapshot batch.
InitVAResolvedMarkingEarly(res, vs, al) ==
  /\ ops[InitOp].pc = "fetchVA"
  /\ ~VARejected(res)
  /\ LET d1 == WriteVehiclesAlerts(data, vs, al, InitOp)
     IN  IF Len(vs) = 0
           THEN /\ data' = Set(data, FinishData(d1, EmptyMap, SignalAborted(InitOp)))
                /\ loading' = Set(loading, FinishLoading(LoadingAtStart(loading),
                                                       SignalAborted(InitOp)))
                /\ error' = Set(error, NoError)
                /\ isInitialized' = Set(isInitialized, TRUE)
                /\ ops' = [ops EXCEPT ![InitOp] = DoneOp("init", "committed")]
                /\ Render(TRUE, isInitialized', vs, aborted)
           ELSE /\ data' = Set(data, d1)
                /\ loading' = Set(loading, LoadingAtStart(loading))
                /\ error' = Set(error, NoError)
                /\ isInitialized' = Set(isInitialized, TRUE)
                /\ ops' = [ops EXCEPT ![InitOp] = FetchSnapOp("init", vs)]
                /\ Render(TRUE, isInitialized', vs, aborted)
  /\ event' = Ev("vaSettled", InitOp, 0, res)
  /\ UNCHANGED <<abortControllerRef, nextOp, mounted>>

\* initializeData, both requests resolved (lines 210-226).  An empty vehicle
\* list makes Promise.all([]) resolve in the same task, so loadSnapshots runs to
\* its end and isInitialized is set before the re-render.
InitVAResolved(res, vs, al) ==
  /\ ops[InitOp].pc = "fetchVA"
  /\ ~VARejected(res)
  /\ LET d1 == WriteVehiclesAlerts(data, vs, al, InitOp)
     IN  IF Len(vs) = 0
           THEN /\ data' = Set(data, FinishData(d1, EmptyMap, SignalAborted(InitOp)))
                /\ loading' = Set(loading, FinishLoading(LoadingAtStart(loading),
                                                       SignalAborted(InitOp)))
                /\ error' = Set(error, NoError)
                /\ isInitialized' = Set(isInitialized, TRUE)
                /\ ops' = [ops EXCEPT ![InitOp] = DoneOp("init", "committed")]
                /\ Render(TRUE, isInitialized', vs, aborted)
           ELSE /\ data' = Set(data, d1)
                /\ loading' = Set(loading, LoadingAtStart(loading))
                /\ error' = Set(error, NoError)
                /\ isInitialized' = isInitialized
                /\ ops' = [ops EXCEPT ![InitOp] = FetchSnapOp("init", vs)]
                /\ Render(TRUE, isInitialized, vs, aborted)
  /\ event' = Ev("vaSettled", InitOp, 0, res)
  /\ UNCHANGED <<abortControllerRef, nextOp, mounted>>

\* refreshData, both requests resolved (lines 152-163).  The vehicles write
\* re-creates refreshSnapshots, so the interval effect is torn down and set up
\* again by the re-render; its cleanup aborts abortControllerRef.current.
RefreshVAResolved(r, res, vs, al) ==
  /\ ops[r].kind = "all"
  /\ ops[r].pc = "fetchVA"
  /\ ~VARejected(res)
  /\ LET d1 == WriteVehiclesAlerts(data, vs, al, r)
     IN  IF SignalAborted(r)
           THEN /\ ops' = [ops EXCEPT ![r] = DoneOp("all", "vaAborted")]
                /\ UNCHANGED <<data, loading, error, intervalRef, timers, aborted>>
           ELSE IF Len(vs) = 0
             THEN /\ data' = Set(data, FinishData(d1, EmptyMap, SignalAborted(r)))
                  /\ loading' = Set(loading, FinishLoading(LoadingAtStart(loading),
                                                         SignalAborted(r)))
                  /\ error' = Set(error, NoError)
                  /\ ops' = [ops EXCEPT ![r] = DoneOp("all", "committed")]
                  /\ Render(TRUE, isInitialized, vs, aborted)
             ELSE /\ data' = Set(data, d1)
                  /\ loading' = Set(loading, LoadingAtStart(loading))
                  /\ error' = Set(error, NoError)
                  /\ ops' = [ops EXCEPT ![r] = FetchSnapOp("all", vs)]
                  /\ Render(TRUE, isInitialized, vs, aborted)
  /\ event' = Ev("vaSettled", r, 0, res)
  /\ UNCHANGED <<isInitialized, abortControllerRef, nextOp, mounted>>

\* Mutant of SnapshotSettled: every settled request writes the map so far.
SnapshotSettledWritingEach(r, v, outcome) ==
  /\ ops[r].pc = "fetchSnap"
  /\ v \in ops[r].pending
  /\ LET isAb == SignalAborted(r)
         kind == ops[r].kind
         sd   == StoreSnapshot(ops[r].snapshotData, v, GetLatest(outcome, r), isAb)
         rest == ops[r].pending \ {v}
     IN  IF rest # {}
           THEN /\ ops' = [ops EXCEPT ![r].pending = rest,
                                      ![r].outcome = Put(@, v, outcome),
                                      ![r].snapshotData = sd]
                /\ data' = Set(data, [data EXCEPT !.snapshots = sd])
                /\ UNCHANGED <<loading, isInitialized, intervalRef, timers, aborted>>
           ELSE /\ data' = Set(data, StampLastUpdate(FinishData(data, sd, isAb), kind, isAb, r))
                /\ loading' = Set(loading, FinishLoading(loading, isAb))
                /\ isInitialized' = IF kind = "init" THEN Set(isInitialized, TRUE)
                                                     ELSE isInitialized
                /\ ops' = [ops EXCEPT ![r] =
                             DoneOp(kind, IF isAb THEN "snapAborted" ELSE "committed")]
                /\ Render(isInitialized' # isInitialized, isInitialized',
                          data.vehicles, aborted)
  /\ event' = Ev("snapshotSettled", r, v, outcome)
  /\ UNCHANGED <<error, abortControllerRef, nextOp, mounted>>

\* --------------------------------------------------- per-vehicle snapshots
\* The latest-snapshot request of operation r for vehicle v settles (lines
\* 103-112); when it is the last of the batch, Promise.all resolves and the
\* rest of loadSnapshots and of its caller runs in the same task.
SnapshotSettled(r, v, outcome) ==
  /\ ops[r].pc = "fetchSnap"
  /\ v \in ops[r].pending
  /\ LET isAb == SignalAborted(r)
         kind == ops[r].kind
         sd   == StoreSnapshot(ops[r].snapshotData, v, GetLatest(outcome, r), isAb)
         rest == ops[r].pending \ {v}
     IN  IF rest # {}
           THEN /\ ops' = [ops EXCEPT ![r].pending = rest,
                                      ![r].outcome = Put(@, v, outcome),
                                      ![r].snapshotData = sd]
                /\ UNCHANGED <<data, loading, isInitialized, intervalRef, timers, aborted>>
           ELSE /\ data' = Set(data, StampLastUpdate(FinishData(data, sd, isAb), kind, isAb, r))
                /\ loading' = Set(loading, FinishLoading(loading, isAb))
                /\ isInitialized' = IF kind = "init" THEN Set(isInitialized, TRUE)
                                                     ELSE isInitialized
                /\ ops' = [ops EXCEPT ![r] =
                             DoneOp(kind, IF isAb THEN "snapAborted" ELSE "committed")]
                /\ Render(isInitialized' # isInitialized, isInitialized',
                          data.vehicles, aborted)
  /\ event' = Ev("snapshotSettled", r, v, outcome)
  /\ UNCHANGED <<error, abortControllerRef, nextOp, mounted>>

\* ------------------------------------------------------- refresh operations
\* Lines 138-143 / 178-183: abort the previous controller and mint a new one.
AbortPrevious(ab, ac) == IF ac # NoController THEN ab \cup {ac} ELSE ab

\* Mutant of RefreshData: a refresh puts the hook back into "not initialized".
RefreshDataResettingInit ==
  /\ mounted
  /\ nextOp <= MaxRefresh
  /\ aborted' = AbortPrevious(aborted, abortControllerRef)
  /\ abortControllerRef' = nextOp
  /\ ops' = [ops EXCEPT ![nextOp] = FetchVAOp("all")]
  /\ nextOp' = nextOp + 1
  /\ isInitialized' = FALSE
  /\ event' = Ev("refreshData", nextOp, 0, "none")
  /\ UNCHANGED <<data, loading, error, intervalRef, timers, mounted>>

\* refreshData up to its first await (lines 136-150).
RefreshData ==
  /\ mounted
  /\ nextOp <= MaxRefresh
  /\ aborted' = AbortPrevious(aborted, abortControllerRef)
  /\ abortControllerRef' = nextOp
  /\ ops' = [ops EXCEPT ![nextOp] = FetchVAOp("all")]
  /\ nextOp' = nextOp + 1
  /\ event' = Ev("refreshData", nextOp, 0, "none")
  /\ UNCHANGED <<data, loading, error, isInitialized, intervalRef, timers, mounted>>

\* Mutant of SnapshotsNoOp: the early return is missing.
SnapshotsNeverNoOp(vs) == FALSE

\* Line 175: refreshSnapshots returns at once when its vehicle list is empty.
SnapshotsNoOp(vs) == Len(vs) = 0

\* refreshSnapshots up to its first await (lines 174-186 and 94-116), called
\* with the vehicle list `vs` its closure holds.
RefreshSnapshotsBody(vs, name) ==
  /\ mounted
  /\ IF SnapshotsNoOp(vs)
       THEN /\ event' = Ev(name, 0, 0, "none")
            /\ UNCHANGED <<data, loading, error, abortControllerRef, aborted,
                           ops, nextOp>>
       ELSE /\ nextOp <= MaxRefresh
            /\ aborted' = AbortPrevious(aborted, abortControllerRef)
            /\ abortControllerRef' = nextOp
            /\ loading' = LoadingAtStart(loading)
            /\ error' = NoError
            /\ ops' = [ops EXCEPT ![nextOp] = FetchSnapOp("snap", vs)]
            /\ nextOp' = nextOp + 1
            /\ event' = Ev(name, nextOp, 0, "none")
            /\ UNCHANGED data
  /\ UNCHANGED <<isInitialized, intervalRef, timers, mounted>>

\* refreshSnapshots called through the hook's returned API (latest render).
RefreshSnapshots == RefreshSnapshotsBody(data.vehicles, "refreshSnapshots")

\* An armed interval fires its callback.
TimerTick(t) ==
  /\ t \in DOMAIN timers
  /\ RefreshSnapshotsBody(timers[t], "timerTick")

\* The owning component unmounts: the interval effect's cleanup runs (lines
\* 243-250) and React drops every later state update.
Unmount ==
  /\ mounted
  /\ mounted' = FALSE
  /\ timers' = CleanupTimers(timers, intervalRef)
  /\ aborted' = CleanupAborted(aborted, abortControllerRef)
  /\ event' = Ev("unmount", 0, 0, "none")
  /\ UNCHANGED <<data, loading, error, isInitialized, intervalRef,
                 abortControllerRef, ops, nextOp>>

\* ------------------------------------------------------------ specification
VASettled ==
  \E r \in Ops, res \in VAResults, vs \in VehicleLists, al \in AlertLists :
       \/ (r = InitOp /\ InitVAFailed(res) /\ UNCHANGED compVars)
       \/ (r = InitOp /\ InitVAResolved(res, vs, al) /\ UNCHANGED compVars)
       \/ (RefreshVAFailed(r, res) /\ UNCHANGED compVars)
       \/ (RefreshVAResolved(r, res, vs, al) /\ UNCHANGED compVars)

SnapshotsSettled ==
  \E r \in Ops, v \in VehicleIds, outcome \in Outcomes :
       SnapshotSettled(r, v, outcome) /\ UNCHANGED compVars

Next ==
  \/ VASettled
  \/ SnapshotsSettled
  \/ RefreshData /\ UNCHANGED compVars
  \/ RefreshSnapshots /\ UNCHANGED compVars
  \/ \E t \in DOMAIN timers : TimerTick(t) /\ UNCHANGED compVars
  \/ Unmount /\ UNCHANGED compVars

Spec == Init /\ [][Next]_vars

\* The requests of operation r eventually settle.
VASettledOf(r) ==
  /\ \E res \in VAResults, vs \in VehicleLists, al \in AlertLists :
       \/ (r = InitOp /\ InitVAFailed(res))
       \/ (r = InitOp /\ InitVAResolved(res, vs, al))
       \/ RefreshVAFailed(r, res)
       \/ RefreshVAResolved(r, res, vs, al)
  /\ UNCHANGED compVars

SnapshotsSettledOf(r) ==
  /\ \E v \in VehicleIds, outcome \in Outcomes : SnapshotSettled(r, v, outcome)
  /\ UNCHANGED compVars

\* Every request issued by the initial load eventually settles.
InitLiveSpec ==
  Spec /\ WF_vars(VASettledOf(InitOp)) /\ WF_vars(SnapshotsSettledOf(InitOp))

TypeOK ==
  /\ isInitialized \in BOOLEAN
  /\ mounted \in BOOLEAN
  /\ nextOp \in 1..(MaxRefresh + 1)
  /\ abortControllerRef \in {NoController} \cup RefreshOps
  /\ aborted \subseteq RefreshOps
  /\ data.vehicles \in VehicleLists
  /\ data.alerts \in AlertLists
  /\ DOMAIN data.snapshots \subseteq VehicleIds
  /\ \A r \in Ops : ops[r].pc \in {"idle", "fetchVA", "fetchSnap", "done"}
  /\ \A r \in Ops : ops[r].promise \in {"pending", "resolved", "rejected"}

\* ----------------------------------------- specification: vehicle status
\* getVehicleStatus applied to every vehicle and snapshot map of the bounds.
StatusInit ==
  /\ HookInit
  /\ status \in [snapshots : SnapshotMaps, vehicle : VehicleIds, result : {"none"}]
  /\ calls = CallsIdle
  /\ chart = ChartIdle
  /\ notes = NotesIdle
  /\ analytics = AnalyticsIdle
  /\ poll = PollIdle

GetVehicleStatusCall ==
  /\ status.result = "none"
  /\ status' = [status EXCEPT
                  !.result = getVehicleStatus(status.snapshots, status.vehicle)]
  /\ UNCHANGED <<hookVars, calls, chart, poll, analytics, notes>>

StatusNext == GetVehicleStatusCall

StatusSpec == StatusInit /\ [][StatusNext]_vars

\* ------------------------------------- specification: remote data client
ClientInit ==
  /\ HookInit
  /\ status = StatusIdle
  /\ calls = CallsIdle
  /\ chart = ChartIdle
  /\ notes = NotesIdle
  /\ analytics = AnalyticsIdle
  /\ poll = PollIdle

\* An api function is invoked: it issues its axios request and awaits it.
Invoke(c, api) ==
  /\ calls[c].pc = "idle"
  /\ calls' = [calls EXCEPT ![c] = [IdleCall EXCEPT !.api = api, !.pc = "awaiting",
                                                    !.requests = 1]]
  /\ UNCHANGED <<hookVars, status, chart, poll, analytics, notes>>

\* The request in flight ends; the invocation settles, or asks again.
Respond(c, http) ==
  /\ calls[c].pc = "awaiting"
  /\ calls' = [calls EXCEPT ![c] =
       IF RetryOn(@.api, http) /\ @.requests < MaxAttempts
         THEN [@ EXCEPT !.requests = @ + 1]
         ELSE [@ EXCEPT !.pc = "settled", !.http = http,
                        !.settlements = @ + 1,
                        !.promise = ApiPromise(calls[c].api, http),
                        !.value = ApiValue(calls[c].api, http)]]
  /\ UNCHANGED <<hookVars, status, chart, poll, analytics, notes>>

ClientNext ==
  \/ \E c \in CallSlots, api \in Apis : Invoke(c, api)
  \/ \E c \in CallSlots, http \in HttpOutcomes : Respond(c, http)

ClientSpec == ClientInit /\ [][ClientNext]_vars

\* --------------------------------------- specification: history charts
\* loadChartData run on every history of the bounds.
ChartInit ==
  /\ HookInit
  /\ status = StatusIdle
  /\ calls = CallsIdle
  /\ chart \in [history : Histories, series : {<<>>}, loaded : {FALSE}]
  /\ notes = NotesIdle
  /\ analytics = AnalyticsIdle
  /\ poll = PollIdle

\* loadChartData after getHistory resolved (Dashboard lines 516-548,
\* VehicleDetails lines 629-660).
LoadChartData ==
  /\ ~chart.loaded
  /\ chart' = [chart EXCEPT !.series = Sort(ChartPoints(chart.history)),
                            !.loaded = TRUE]
  /\ UNCHANGED <<hookVars, status, calls, poll, analytics, notes>>

ChartNext == LoadChartData

ChartSpec == ChartInit /\ [][ChartNext]_vars

\* ------------------------------------- specification: VehicleMap polling
PollInit ==
  /\ HookInit
  /\ status = StatusIdle
  /\ calls = CallsIdle
  /\ chart = ChartIdle
  /\ notes = NotesIdle
  /\ analytics = AnalyticsIdle
  /\ poll = PollIdle

\* A call of fetchVehiclesAndSnapshots begins: it awaits vehicleApi.getAll().
PollBegin(p) ==
  [p EXCEPT !.started = @ + 1,
            !.runs[p.started + 1] = [IdlePoll EXCEPT !.pc = "getAll"]]

\* The mount effect runs startPolling (lines 104-118, 120-128).
StartPolling ==
  /\ poll.mounted
  /\ poll.started = 0
  /\ poll' = [PollBegin(poll) EXCEPT !.timer = TRUE]
  /\ UNCHANGED <<hookVars, status, calls, chart, analytics, notes>>

\* The 5-second interval fires (lines 113-115), whatever is still in flight.
PollTick ==
  /\ poll.timer
  /\ poll.started < MaxPolls
  /\ poll' = PollBegin(poll)
  /\ UNCHANGED <<hookVars, status, calls, chart, analytics, notes>>

\* vehicleApi.getAll() of poll r settles (line 47; the catch of lines 98-100).
GetAllSettled(r, res, vs) ==
  /\ poll.runs[r].pc = "getAll"
  /\ poll' = IF res = "ok"
               THEN PollAdvance(poll, r, [poll.runs[r] EXCEPT !.vehiclesData = vs, !.i = 1])
               ELSE [poll EXCEPT !.runs[r].pc = "done"]
  /\ UNCHANGED <<hookVars, status, calls, chart, analytics, notes>>

\* snapshotApi.getLatest of poll r for its vehicle i settles (lines 54-91).
GetLatestSettled(r, outcome, sn) ==
  /\ poll.runs[r].pc = "getLatest"
  /\ LET run == poll.runs[r]
         v   == run.vehiclesData[run.i]
         sd  == IF outcome = "ok" THEN Put(run.snapshotData, v, sn) ELSE run.snapshotData
         vw  == Append(run.vehiclesWithSnapshots,
                       [id |-> v, status |-> mapStatus(sd, v)])
     IN  poll' = PollAdvance(poll, r, [run EXCEPT !.snapshotData = sd,
                                                  !.vehiclesWithSnapshots = vw,
                                                  !.i = @ + 1])
  /\ UNCHANGED <<hookVars, status, calls, chart, analytics, notes>>

\* The effect cleanup clears the interval (lines 123-127); polls go on.
PollUnmount ==
  /\ poll.mounted
  /\ poll.started > 0
  /\ poll' = [poll EXCEPT !.mounted = FALSE, !.timer = FALSE]
  /\ UNCHANGED <<hookVars, status, calls, chart, analytics, notes>>

PollNext ==
  \/ StartPolling
  \/ PollTick
  \/ \E r \in PollIds, res \in {"ok", "failed"}, vs \in VehicleLists : GetAllSettled(r, res, vs)
  \/ \E r \in PollIds, outcome \in Outcomes, sn \in PollSnapshots : GetLatestSettled(r, outcome, sn)
  \/ PollUnmount

PollSpec == PollInit /\ [][PollNext]_vars

\* ------------------------------------ specification: chart selection
AnalyticsInit ==
  /\ HookInit
  /\ status = StatusIdle
  /\ calls = CallsIdle
  /\ chart = ChartIdle
  /\ notes = NotesIdle
  /\ poll = PollIdle
  /\ analytics = AnalyticsIdle

\* The parent passes another selectedVehicle (or null).
SelectVehicle(v) ==
  /\ v # analytics.selectedVehicle
  /\ v # NoVehicle => analytics.issued < MaxLoads
  /\ analytics' = RunLoadEffect(analytics, v, analytics.selectedTimeRange)
  /\ UNCHANGED <<hookVars, status, calls, chart, poll, notes>>

\* setSelectedTimeRange (line 725): loadChartData is re-created, the effect re-runs.
SelectTimeRange(range) ==
  /\ range # analytics.selectedTimeRange
  /\ analytics.selectedVehicle # NoVehicle => analytics.issued < MaxLoads
  /\ analytics' = RunLoadEffect(analytics, analytics.selectedVehicle, range)
  /\ UNCHANGED <<hookVars, status, calls, chart, poll, notes>>

\* getHistory of load q settles: lines 516-553.
HistorySettled(q, res) ==
  /\ analytics.requests[q].pc = "awaiting"
  /\ analytics' =
       [analytics EXCEPT
          !.requests[q] = [@ EXCEPT !.pc = "done", !.res = res],
          !.chartData = IF res = "ok"
                          THEN [carId |-> analytics.requests[q].carId,
                                limit |-> analytics.requests[q].limit]
                          ELSE @,
          !.loading = FALSE]
  /\ UNCHANGED <<hookVars, status, calls, chart, poll, notes>>

AnalyticsNext ==
  \/ \E v \in {NoVehicle} \cup VehicleIds : SelectVehicle(v)
  \/ \E range \in TimeRanges : SelectTimeRange(range)
  \/ \E q \in LoadIds, res \in {"ok", "failed"} : HistorySettled(q, res)

AnalyticsSpec == AnalyticsInit /\ [][AnalyticsNext]_vars

\* ------------------------------------- specification: notification bell
NotesInit ==
  /\ HookInit
  /\ status = StatusIdle
  /\ calls = CallsIdle
  /\ chart = ChartIdle
  /\ poll = PollIdle
  /\ analytics = AnalyticsIdle
  /\ notes = NotesIdle

\* The parent passes a new alerts array: the effect of lines 838-858.
ReceiveAlerts(list) ==
  /\ notes' =
       [notes EXCEPT
          !.alerts = list,
          !.notifications = @ \o NewOnes(@, NewNotifications(list)),
          !.unreadCount = Len(NewNotifications(list)),
          !.seen = @ \cup {list[i].id : i \in {k \in 1..Len(list) : ~list[k].isResolved}},
          !.last = "alerts"]
  /\ UNCHANGED <<hookVars, status, calls, chart, poll, analytics>>

\* setNotifications(prev => prev.filter(n => n.id !== id)) (line 879).
Removed(n, id, how) ==
  [n EXCEPT !.notifications = Without(@, id),
            !.dismissed = @ \cup {id},
            !.last = how]

\* dismissNotification(id) from the X button (lines 878-881).
DismissNotification(id) ==
  /\ id \in NotificationIds(notes.notifications)
  /\ notes' = Removed(notes, id, "dismiss")
  /\ UNCHANGED <<hookVars, status, calls, chart, poll, analytics>>

\* The 5-second timer of the auto-dismiss effect fires (lines 860-876).
AutoDismiss(id) ==
  /\ id \in NotificationIds(notes.notifications)
  /\ notes' = Removed(notes, id, "auto")
  /\ UNCHANGED <<hookVars, status, calls, chart, poll, analytics>>

\* dismissAll (lines 883-886), the 'Clear all' button.
DismissAll ==
  /\ notes.notifications # <<>>
  /\ notes' = [notes EXCEPT !.notifications = <<>>,
                            !.unreadCount = 0,
                            !.dismissed = @ \cup NotificationIds(notes.notifications),
                            !.last = "clear"]
  /\ UNCHANGED <<hookVars, status, calls, chart, poll, analytics>>

NotesNext ==
  \/ \E list \in NoticeAlertLists : ReceiveAlerts(list)
  \/ \E a \in NoticeAlertIds : DismissNotification(NotificationId(a))
  \/ \E a \in NoticeAlertIds : AutoDismiss(NotificationId(a))
  \/ DismissAll

NotesSpec == NotesInit /\ [][NotesNext]_vars

\* ------------------------------------- specification: periodic refresh
\* The hook from the state a committed initial load leaves (vehicles known,
\* interval armed), driven by the interval alone.  A tick that finds a batch
\* in flight takes the token of a batch that has ended, so that ticks can go
\* on for ever within the bounds.
PeriodicInit ==
  \E vs \in VehicleLists \ {<<>>} :
    /\ data = [vehicles |-> vs, alerts |-> <<>>,
               snapshots |-> [v \in SeqToSet(vs) |-> Time(InitOp)],
               lastUpdate |-> Time(InitOp)]
    /\ loading = [vehicles |-> TRUE, snapshots |-> FALSE, alerts |-> TRUE]
    /\ error = NoError
    /\ isInitialized = TRUE
    /\ intervalRef = 1
    /\ timers = [t \in {1} |-> vs]
    /\ abortControllerRef = NoController
    /\ aborted = {}
    /\ ops = [r \in Ops |-> IF r = InitOp THEN DoneOp("init", "committed") ELSE IdleOp]
    /\ nextOp = 1
    /\ mounted = TRUE
    /\ event = Ev("snapshotSettled", InitOp, Len(vs), "ok")
    /\ status = StatusIdle
    /\ calls = CallsIdle
    /\ chart = ChartIdle
    /\ notes = NotesIdle
    /\ analytics = AnalyticsIdle
    /\ poll = PollIdle

\* The interval fires refreshSnapshots (lines 174-196) and the new controller
\* gets token r, one no batch in flight holds.
PeriodicTick(t, r) ==
  /\ mounted
  /\ t \in DOMAIN timers
  /\ ~SnapshotsNoOp(timers[t])
  /\ ops[r].pc \in {"idle", "done"}
  /\ aborted' = AbortPrevious(aborted, abortControllerRef) \ {r}
  /\ abortControllerRef' = r
  /\ loading' = LoadingAtStart(loading)
  /\ error' = NoError
  /\ ops' = [ops EXCEPT ![r] = FetchSnapOp("snap", timers[t])]
  /\ event' = Ev("timerTick", r, 0, "none")
  /\ UNCHANGED <<data, isInitialized, intervalRef, timers, nextOp, mounted>>
  /\ UNCHANGED compVars

PeriodicTicks == \E t \in DOMAIN timers, r \in RefreshOps : PeriodicTick(t, r)

PeriodicNext ==
  \/ PeriodicTicks
  \/ SnapshotsSettled

\* Ticks keep occurring and every snapshot request eventually settles.
PeriodicSpec ==
  /\ PeriodicInit
  /\ [][PeriodicNext]_vars
  /\ WF_vars(PeriodicTicks)
  /\ \A r \in RefreshOps : WF_vars(SnapshotsSettledOf(r))

\* =================================================================== claims
InFlight(r) == ops[r].pc \in {"fetchVA", "fetchSnap"}
IsRefresh(r) == ops[r].kind \in {"all", "snap"}
\* A refresh issued after r has minted its token.
Superseded(r) == IsRefresh(r) /\ r + 1 < nextOp
\* The vehicles of batch r whose latest-snapshot request answered a snapshot,
\* read in the step in which the last request of the batch settles.
OkVehicles(r) ==
  {v \in DOMAIN ops[r].outcome : ops[r].outcome[v] = "ok"}
    \cup (IF event'.outcome = "ok" THEN {event'.vehicle} ELSE {})
\* Operation r finishes its snapshot batch in this step.
BatchEnds(r) == ops[r].pc = "fetchSnap" /\ ops'[r].pc = "done"

\* C1: once a later refresh has minted its token, no step of an earlier
\* refresh (refreshData or refreshSnapshots) writes data, loading or error.
C1_SupersededWriteSuppression ==
  [][\A r \in RefreshOps :
       (Superseded(r) /\ ops'[r] # ops[r]) => UNCHANGED <<data, loading, error>>]_vars

\* C1 witness: a superseded refresh has just run the end of its snapshot batch.
C1_Witness ==
  /\ mounted
  /\ event.name = "snapshotSettled"
  /\ event.outcome = "ok"
  /\ Superseded(event.op)
  /\ ops[event.op].pc = "done"

\* C2: a refreshData whose vehicles, alerts and snapshot requests all succeed,
\* with no refresh issued after it, commits the snapshots fetched for the new
\* vehicle list.
C2_RefreshAllCommitsSnapshots ==
  [][\A r \in RefreshOps :
       ( /\ mounted /\ isInitialized /\ ops[InitOp].pc = "done"
         /\ ops[r].kind = "all" /\ BatchEnds(r)
         /\ nextOp = r + 1
         /\ OkVehicles(r) = SeqToSet(ops[r].vehicles) )
       => /\ data'.vehicles = ops[r].vehicles
          /\ data'.snapshots = [v \in SeqToSet(ops[r].vehicles) |-> Time(r)]]_vars

\* C3: isInitialized starts false and, once true, is never set back to false.
C3_InitializedOnce ==
  /\ ~isInitialized
  /\ [][isInitialized => isInitialized']_vars

\* C3 witness: isInitialized is true after a failed initial load, and a later
\* refreshData has run to its end.
C3_Witness ==
  /\ isInitialized
  /\ ops[InitOp].result = "vaFailed"
  /\ \E r \in RefreshOps : ops[r].kind = "all" /\ ops[r].pc = "done"

\* C4: when every request of the initial load settles, isInitialized eventually
\* becomes true (for as long as the hook is mounted).
C4_InitializationLive == <>(isInitialized \/ ~mounted)

\* C4 witness: the initial load failed and the hook is initialized.
C4_Witness ==
  /\ mounted
  /\ isInitialized
  /\ ops[InitOp].result = "vaFailed"

\* C5: with no fetch of the hook in flight, the three loading flags are false.
C5_LoadingFlagsNeverStuck ==
  (mounted /\ \A r \in Ops : ~InFlight(r))
    => (~loading.vehicles /\ ~loading.alerts /\ ~loading.snapshots)

\* C6: an interval is armed only if isInitialized is true and the vehicle list
\* in state is not empty.
C6_TimerArmedOnlyWhenReady ==
  DOMAIN timers # {} => (isInitialized /\ Len(data.vehicles) > 0)

\* C6 witness: the interval is armed.
C6_Witness == mounted /\ intervalRef \in DOMAIN timers

\* C7: after unmount no interval is armed and every operation of the hook
\* still in flight runs under an aborted signal.
C7_UnmountAbortsEverything ==
  ~mounted => /\ DOMAIN timers = {}
              /\ \A r \in Ops : InFlight(r) => SignalAborted(r)

\* C8: with zero vehicles in state, a call of refreshSnapshots (by the timer or
\* through the API) mints no token, aborts nothing, issues no request and
\* changes none of data, loading and error.
C8_NoVehiclesNoOp ==
  [][(event'.name \in {"refreshSnapshots", "timerTick"} /\ Len(data.vehicles) = 0)
       => UNCHANGED <<data, loading, error, ops, nextOp, aborted, abortControllerRef>>]_vars

\* C8 witness: refreshSnapshots was just called with an empty vehicle list
\* while a refreshData is in flight.
C8_Witness ==
  /\ event.name = "refreshSnapshots"
  /\ Len(data.vehicles) = 0
  /\ isInitialized
  /\ \E r \in RefreshOps : InFlight(r) /\ ~SignalAborted(r)

C10_AllOrNothing ==
  [][\A r \in Ops :
       ( /\ mounted /\ ops[r].pc = "fetchVA" /\ ops'[r] # ops[r]
         /\ event'.outcome \in {"vehiclesFailed", "alertsFailed"} )
       => /\ data' = data
          /\ r = InitOp => /\ error' = "Failed to load dashboard data"
                           /\ nextOp = 1 => data' = EmptyData]_vars

\* C10 witness: a refreshData failed on its alerts request and the vehicles of
\* an earlier load are still in state.
C10_Witness ==
  /\ mounted
  /\ event.name = "vaSettled"
  /\ event.outcome = "alertsFailed"
  /\ ops[event.op].kind = "all"
  /\ Len(data.vehicles) > 0
  /\ error = "Failed to refresh dashboard data"

\* ------------------------------------------------------------ C11 .. C20
\* The message the catch branch of operation r stores (lines 167 and 229).
FailureMessage(r) ==
  IF r = InitOp THEN "Failed to load dashboard data"
                ELSE "Failed to refresh dashboard data"

\* Operation r is at its vehicles/alerts await and this step rejects it.
VAFails(r) ==
  /\ ops[r].pc = "fetchVA"
  /\ ops'[r] # ops[r]
  /\ event'.outcome \in {"vehiclesFailed", "alertsFailed"}

\* C11: error is null or one of the hook's messages, and every failure of the
\* vehicles/alerts fetch of a non-superseded load (the initial load, or a
\* refreshData after which no newer token was minted) leaves error holding
\* that failure's message.
C11_ErrorRetention ==
  [][/\ error' \in {NoError, "Failed to load dashboard data",
                    "Failed to refresh dashboard data"}
     /\ \A r \in Ops :
          (mounted /\ VAFails(r) /\ ~Superseded(r)) => error' = FailureMessage(r)]_vars

C13_LatestDistinguishesAbsence ==
  (event.name = "snapshotSettled" /\ event.outcome = "failed")
    => GetLatest(event.outcome, event.op) # GetLatest("absent", event.op)

\* C14: getVehicleStatus returns 'inactive' for a vehicle with no snapshot,
\* 'alert' for a snapshot with a non-empty error string or with an AQI channel
\* above 100, an eCO2 channel above 1000 or an O3 channel above 80, and
\* otherwise 'active' for carState 1 and 'inactive' for any other carState.
C14_DerivedStatus ==
  status.result # "none" =>
    IF status.vehicle \notin DOMAIN status.snapshots
    THEN status.result = "inactive"
    ELSE LET sn == status.snapshots[status.vehicle]
             breach ==
               \/ sn.error.defined /\ sn.error.text # <<>>
               \/ sn.ens160AqiIndoor > AqiLimit \/ sn.ens160AqiOutdoor > AqiLimit
               \/ sn.sgp30Eco2Indoor > Eco2Limit \/ sn.sgp30Eco2Outdoor > Eco2Limit
               \/ sn.ens160Eco2Indoor > Eco2Limit \/ sn.ens160Eco2Outdoor > Eco2Limit
               \/ sn.ze27O3Indoor > O3Limit \/ sn.ze27O3Outdoor > O3Limit
         IN  status.result = IF breach THEN "alert"
                             ELSE IF sn.carState = 1 THEN "active" ELSE "inactive"

\* C15: no step of a snapshots-only refresh (manual or timer-driven) removes
\* from data.snapshots the entry of a vehicle that is in data.vehicles, also
\* when that vehicle's request failed or found no snapshot.
C15_NoDeletionBySnapshotsRefresh ==
  [][\A r \in RefreshOps :
       (ops[r].kind = "snap" /\ ops'[r] # ops[r])
       => \A v \in DOMAIN data.snapshots \cap SeqToSet(data.vehicles) :
             v \in DOMAIN data'.snapshots]_vars

\* C16: a refreshSnapshots call starts one latest-snapshot request per vehicle
\* of the list it was invoked with (the current list when called through the
\* hook's API) and no vehicles or alerts request; no step of it changes
\* data.vehicles or data.alerts, so its commit changes only data.snapshots and
\* data.lastUpdate.
C16_RefreshSnapshotsFrame ==
  [][\A r \in RefreshOps :
       /\ (ops[r].kind = "none" /\ ops'[r].kind = "snap")
          => /\ ops'[r].pc = "fetchSnap"
             /\ ops'[r].pending = SeqToSet(ops'[r].vehicles)
             /\ event'.name = "refreshSnapshots" => ops'[r].vehicles = data.vehicles
             /\ data' = data
       /\ (ops[r].kind = "snap" /\ ops'[r] # ops[r])
          => /\ ops'[r].pc # "fetchVA"
             /\ data'.vehicles = data.vehicles
             /\ data'.alerts = data.alerts]_vars

\* C16 witness: a snapshots-only refresh over two vehicles committed its map
\* and stamped lastUpdate while alerts were in state.
C16_Witness ==
  /\ mounted
  /\ event.name = "snapshotSettled"
  /\ ops[event.op].kind = "snap"
  /\ ops[event.op].result = "committed"
  /\ data.lastUpdate = Time(event.op)
  /\ Len(data.vehicles) = 2
  /\ Len(data.alerts) > 0
  /\ DOMAIN data.snapshots = {1, 2}

\* C17: every invocation of an api function has issued exactly one HTTP
\* request from the moment it is invoked, and has settled exactly once when
\* that request has ended, whatever its outcome.
C17_NoRetries ==
  \A c \in CallSlots :
     /\ calls[c].pc = "idle" => (calls[c].requests = 0 /\ calls[c].settlements = 0)
     /\ calls[c].pc = "awaiting" => (calls[c].requests = 1 /\ calls[c].settlements = 0)
     /\ calls[c].pc = "settled" => /\ calls[c].requests = 1
                                   /\ calls[c].settlements = 1
                                   /\ calls[c].promise # "pending"

\* C17 witness: a getHistory call rejected after a timeout and a getLatest
\* call resolved to null after a network error, one request each.
C17_Witness ==
  \E c, d \in CallSlots :
     /\ calls[c].api = "snapshotApi.getHistory" /\ calls[c].http = "timeout"
     /\ calls[c].promise = "rejected" /\ calls[c].requests = 1
     /\ calls[d].api = "snapshotApi.getLatest" /\ calls[d].http = "networkError"
     /\ calls[d].value = "null" /\ calls[d].settlements = 1

\* C18: whatever the order in which the requests of a snapshot batch settle,
\* data.snapshots holds no entry of a batch that is still in progress, and the
\* map a batch commits is the one of the vehicles whose request returned a
\* snapshot, stamped by that batch.
C18_BatchWrittenOnce ==
  [][\A r \in Ops :
       /\ ops'[r].pc = "fetchSnap"
          => \A v \in DOMAIN data'.snapshots : data'.snapshots[v] # Time(r)
       /\ (mounted /\ BatchEnds(r) /\ ops'[r].result = "committed")
          => data'.snapshots = [v \in OkVehicles(r) |-> Time(r)]]_vars

\* C18 witness: a batch over two vehicles committed both snapshots although
\* the request of vehicle 2 settled before the request of vehicle 1.
C18_Witness ==
  /\ mounted
  /\ event.name = "snapshotSettled"
  /\ event.vehicle = 1
  /\ ops[event.op].result = "committed"
  /\ DOMAIN data.snapshots = {1, 2}
  /\ data.snapshots[2] = Time(event.op)

\* C19: the initial load starts per-vehicle snapshot requests only in the
\* step in which both its vehicles and its alerts request have succeeded, and
\* that step has written the vehicles and alerts; a failure of either ends the
\* load with no snapshot request; isInitialized stays false while the batch is
\* in progress and on the success path turns true in the step that writes the
\* batch's map.
C19_InitializeOrdering ==
  [][/\ (ops[InitOp].pc = "fetchVA" /\ ops'[InitOp].pc = "fetchSnap")
        => /\ event'.outcome = "ok"
           /\ ops'[InitOp].pending = SeqToSet(ops'[InitOp].vehicles)
           /\ mounted => /\ data'.vehicles = ops'[InitOp].vehicles
                          /\ data'.lastUpdate = Time(InitOp)
     /\ VAFails(InitOp) => ops'[InitOp].pc = "done"
     /\ ops'[InitOp].pc = "fetchSnap" => ~isInitialized'
     /\ (mounted /\ BatchEnds(InitOp))
        => /\ isInitialized'
           /\ data'.snapshots = [v \in OkVehicles(InitOp) |-> Time(InitOp)]]_vars

\* C19 witness: the initial load went through both phases and is initialized
\* with a snapshot in state.
C19_Witness ==
  /\ mounted
  /\ isInitialized
  /\ event.name = "snapshotSettled"
  /\ event.op = InitOp
  /\ ops[InitOp].result = "committed"
  /\ DOMAIN data.snapshots # {}

\* C20: after loadChartData the chart series of a sensor is in ascending order
\* of the snapshots' ts (calendar day, then time of day), for every order of
\* the history and also when it spans several days, and the current value is
\* the reading of the snapshot with the greatest ts.
C20_ChartSortedByTs ==
  chart.loaded =>
    LET series == chart.series
        Before(a, b) ==
          a.date < b.date \/ (a.date = b.date /\ a.timestamp < b.timestamp)
    IN  /\ \A i \in 1..(Len(series) - 1) : Before(series[i], series[i + 1])
        /\ \A i \in 1..Len(series) :
              (\A j \in 1..Len(series) : j # i => Before(series[j], series[i]))
              => Current(series) = series[i].value

\* C21: when no snapshot of the history carries a reading of the charted
\* sensor, none of the metrics derived for it (current, average, min, max) is
\* reported as the number 0.
C21_AbsenceIsNotZero ==
  (chart.loaded /\ \A i \in 1..Len(chart.history) : chart.history[i].value = Undefined)
    => LET m == sensorMetrics(chart.series)
       IN  m.current # 0 /\ m.average.num # 0 /\ m.min # 0 /\ m.max # 0

\* C22: for every snapshot, and for the absence of one, the status the map
\* computes for a vehicle is the status getVehicleStatus computes for it.
C22_StatusSameEverywhere ==
  status.result # "none"
    => mapStatus(status.snapshots, status.vehicle) = status.result

\* C23: at most one refresh interval is armed at any time, it is the one
\* intervalRef holds, and none is armed once the component has unmounted.
C23_SingleTimer ==
  /\ Cardinality(DOMAIN timers) <= 1
  /\ DOMAIN timers \subseteq {intervalRef}
  /\ ~mounted => DOMAIN timers = {}

\* C23 witness: the interval effect re-ran with its condition true, so an
\* interval was cleared and a second one armed.
C23_Witness ==
  /\ mounted
  /\ intervalRef >= 2
  /\ DOMAIN timers = {intervalRef}

\* C24: every key of data.snapshots is the id of a vehicle in data.vehicles.
C24_SnapshotKeysFollowVehicles ==
  DOMAIN data.snapshots \subseteq SeqToSet(data.vehicles)

\* A refreshData has written the vehicles and alerts it fetched.
WroteVehicles(r) ==
  /\ ops[r].kind = "all"
  /\ ops[r].pc = "fetchSnap" \/ ops[r].result \in {"committed", "snapAborted"}

\* C25: once a refreshData invoked during the initial load has written its
\* results, no later step of the initial load writes to data.
C25_InitialLoadDoesNotOverwrite ==
  [][((\E r \in RefreshOps : WroteVehicles(r)) /\ ops'[InitOp] # ops[InitOp])
       => data' = data]_vars

\* C26: with a vehicle known and the interval armed, if ticks keep occurring
\* and every snapshot request eventually settles, some snapshots-only refresh
\* eventually commits its snapshot map.
C26_PeriodicRefreshCommits ==
  <>(\E r \in RefreshOps : ops[r].kind = "snap" /\ ops[r].result = "committed")

\* C27: VehicleMap polling is race-free: what a poll wrote to vehicles and
\* snapshots is never overwritten by the completion of a poll that started
\* earlier, and no poll writes that state after the component has unmounted.
C27_PollingRaceFree ==
  [][/\ poll'.writer >= poll.writer
     /\ ~poll.mounted =>
          /\ poll'.vehicles = poll.vehicles
          /\ poll'.snapshots = poll.snapshots
          /\ poll'.writer = poll.writer]_vars

\* C28: chart data matches the selection: with a vehicle selected, once no
\* history request is in flight (and the request of the current selection was
\* answered) chartData is the history of the selected vehicle and time range;
\* and loading is true while a request for the current selection is in flight.
C28_ChartMatchesSelection ==
  LET a        == analytics
      InFlight28 == {q \in LoadIds : a.requests[q].pc = "awaiting"}
      ForSelection(q) ==
        /\ a.requests[q].carId = a.selectedVehicle
        /\ a.requests[q].limit = timeRangeConfig(a.selectedTimeRange)
  IN  /\ ( /\ a.selectedVehicle # NoVehicle
           /\ InFlight28 = {}
           /\ a.issued > 0
           /\ a.requests[a.issued].res = "ok" )
         => /\ a.chartData.carId = a.selectedVehicle
            /\ a.chartData.limit = timeRangeConfig(a.selectedTimeRange)
      /\ (\E q \in InFlight28 : ForSelection(q)) => a.loading

\* C29: notification ids are unique: the notifications list never holds two
\* notifications with the same id, and every notification in it has the id
\* 'alert-<id>' of an alert that was unresolved in some alert list received.
C29_NotificationIdsUnique ==
  LET n == notes.notifications
  IN  /\ \A i, j \in 1..Len(n) : i # j => n[i].id # n[j].id
      /\ \A i \in 1..Len(n) : \E a \in notes.seen : n[i].id = NotificationId(a)

\* Two notifications listed after an alert-list update that followed a removal.
C29_Witness ==
  /\ Len(notes.notifications) >= 2
  /\ notes.dismissed # {}
  /\ notes.last = "alerts"

\* C30: a dismissed notification stays dismissed: no notification whose id
\* was removed earlier (by the user, the timer or 'Clear all') is listed again.
C30_DismissedStaysDismissed ==
  NotificationIds(notes.notifications) \cap notes.dismissed = {}

====
